---- MODULE Spec2Model ----
(***************************************************************************)
(* Resume Analyzer API (backend/main.py): process start-up, the            *)
(* POST /api/analyze handler and its bounded-retry call of the Gemini      *)
(* model.                                                                  *)
(*                                                                         *)
(* Byte strings and texts are run-length encoded: a sequence of runs       *)
(* [v |-> value, n |-> count], n >= 1, adjacent runs having different      *)
(* values.  <<[v |-> 97, n |-> 3]>> is b"aaa" (or the text "aaa").  The    *)
(* encoding lets a body of 5 MiB and a text of 45,000 characters be        *)
(* handled at their real sizes.                                            *)
(***************************************************************************)
EXTENDS Integers, Sequences, FiniteSets, TLC

\* ------------------------------------------------------------------------
\* Bounds of the model
\* ------------------------------------------------------------------------

\* Number of distinct output texts the external model may answer with.
MaxOutputs == 2

\* The requests in flight in the sequential specification.
SingleRequest == {1}

\* The requests in flight in the concurrent specification.
TwoRequests == {1, 2}

\* ------------------------------------------------------------------------
\* Program constants
\* ------------------------------------------------------------------------

\* retry_gemini_request(model, text, retries=3)
retries == 3

\* text[:45000]
PromptTextLimit == 45000

\* len(contents) > 5 * 1024 * 1024
MaxUploadBytes == 5 * 1024 * 1024

\* "max_output_tokens": 2000
max_output_tokens == 2000

\* "temperature": 0.3, in tenths
temperature_tenths == 3

MODEL_NAME == "gemini-1.5-flash"

\* os.getenv returns None for an unset variable
None == "<None>"

\* ------------------------------------------------------------------------
\* Run-length encoded strings
\* ------------------------------------------------------------------------

Run(v, n) == [v |-> v, n |-> n]

RECURSIVE Length(_)
\* len(s)
Length(s) == IF s = <<>> THEN 0 ELSE Head(s).n + Length(Tail(s))

\* s + v * n
AppendRun(s, v, n) ==
    IF n = 0 THEN s
    ELSE IF s # <<>> /\ s[Len(s)].v = v
         THEN [s EXCEPT ![Len(s)].n = @ + n]
         ELSE Append(s, Run(v, n))

RECURSIVE Slice(_, _)
\* s[:k], k >= 0
Slice(s, k) ==
    IF k <= 0 \/ s = <<>> THEN <<>>
    ELSE IF Head(s).n >= k THEN <<Run(Head(s).v, k)>>
    ELSE <<Head(s)>> \o Slice(Tail(s), k - Head(s).n)

\* ------------------------------------------------------------------------
\* Filenames: sequences of one-character strings
\* ------------------------------------------------------------------------

UpperCase == <<"A","B","C","D","E","F","G","H","I","J","K","L","M",
               "N","O","P","Q","R","S","T","U","V","W","X","Y","Z">>
LowerCase == <<"a","b","c","d","e","f","g","h","i","j","k","l","m",
               "n","o","p","q","r","s","t","u","v","w","x","y","z">>

\* str.lower(), on one character
LowerChar(c) ==
    IF \E i \in 1..Len(UpperCase) : UpperCase[i] = c
    THEN LowerCase[CHOOSE i \in 1..Len(UpperCase) : UpperCase[i] = c]
    ELSE c

\* str.lower()
Lower(s) == [i \in 1..Len(s) |-> LowerChar(s[i])]

\* str.endswith(suffix)
EndsWith(s, suffix) ==
    /\ Len(suffix) <= Len(s)
    /\ SubSeq(s, Len(s) - Len(suffix) + 1, Len(s)) = suffix

\* ('.pdf', '.doc', '.docx', '.txt')
AllowedSuffixes ==
    { <<".","p","d","f">>, <<".","d","o","c">>,
      <<".","d","o","c","x">>, <<".","t","x","t">> }

RECURSIVE Contains(_, _)
\* sub in s
Contains(s, sub) ==
    /\ Len(sub) <= Len(s)
    /\ \/ SubSeq(s, 1, Len(sub)) = sub
       \/ Contains(Tail(s), sub)

\* The suffix is looked for anywhere in the name: any(x in name for x in ...)
HasAllowedExtension_Anywhere(name) ==
    \E suf \in AllowedSuffixes : Contains(Lower(name), suf)

\* file.filename.lower().endswith(('.pdf', '.doc', '.docx', '.txt'))
HasAllowedExtension(name) == \E suf \in AllowedSuffixes : EndsWith(Lower(name), suf)

\* The .lower() is missing: file.filename.endswith('.pdf')
IsPdf_CaseSensitive(name) == EndsWith(name, <<".","p","d","f">>)

\* file.filename.lower().endswith('.pdf')
IsPdf(name) == EndsWith(Lower(name), <<".","p","d","f">>)

\* ------------------------------------------------------------------------
\* bytes.decode('utf-8'), for bodies made of one- and two-byte sequences
\* (the bodies of the model hold no lead byte 0xE0..0xF4)
\* ------------------------------------------------------------------------

IsAscii(b) == b < 128
IsLead2(b) == b >= 194 /\ b <= 223
IsContinuation(b) == b >= 128 /\ b <= 191

DecodeFailure == [ok |-> FALSE, text |-> <<>>]

RECURSIVE DecodeFrom(_, _, _)
DecodeFrom(bytes, i, acc) ==
    IF i > Len(bytes) THEN [ok |-> TRUE, text |-> acc]
    ELSE IF IsAscii(bytes[i].v)
         THEN DecodeFrom(bytes, i + 1, AppendRun(acc, bytes[i].v, bytes[i].n))
    ELSE IF /\ IsLead2(bytes[i].v)
            /\ bytes[i].n = 1
            /\ i + 1 <= Len(bytes)
            /\ IsContinuation(bytes[i + 1].v)
            /\ bytes[i + 1].n = 1
         THEN DecodeFrom(bytes, i + 2,
                  AppendRun(acc, (bytes[i].v - 192) * 64 + (bytes[i + 1].v - 128), 1))
    ELSE DecodeFailure

\* contents.decode('utf-8'): the text, or UnicodeDecodeError (ok = FALSE)
Utf8Decode(bytes) == DecodeFrom(bytes, 1, <<>>)

\* ------------------------------------------------------------------------
\* Inputs: uploads, and the answers of the external collaborators
\* ------------------------------------------------------------------------

FileNames ==
    { <<"c","v",".","p","d","f">>,
      <<"C","V",".","P","d","F">>,
      <<"c","v",".","t","x","t">>,
      <<"c","v",".","D","O","C">>,
      <<"c","v",".","d","o","c","x">>,
      <<"c","v",".","e","x","e">>,
      <<"c","v",".","p","d","f",".","e","x","e">>,
      <<"t","x","t">>,
      <<>> }

\* b"Hello World"
HelloWorld ==
    << Run(72, 1), Run(101, 1), Run(108, 2), Run(111, 1), Run(32, 1), Run(87, 1),
       Run(111, 1), Run(114, 1), Run(108, 1), Run(100, 1) >>

Bodies ==
    { <<>>,
      HelloWorld,
      << Run(195, 1), Run(169, 1) >>,
      << Run(255, 1) >>,
      << Run(97, 2), Run(195, 1) >>,
      << Run(97, PromptTextLimit - 1), Run(98, 1) >>,
      << Run(97, PromptTextLimit), Run(98, 1) >>,
      << Run(97, MaxUploadBytes) >>,
      << Run(97, MaxUploadBytes + 1) >> }

\* The uploads of the specification with two requests in flight
ConcurrentFileNames ==
    { <<"c","v",".","p","d","f">>,
      <<"c","v",".","t","x","t">>,
      <<"c","v",".","e","x","e">> }

ConcurrentBodies == { <<>>, HelloWorld, << Run(255, 1) >> }

\* What pdfminer's extract_text may return for a body
PdfTexts ==
    { <<>>,
      << Run(82, 1), Run(101, 2) >>,
      << Run(97, PromptTextLimit), Run(98, 3) >> }

OutputTexts == << "{score: 10}", "{score: 55}", "{score: 90}", "not json" >>

\* The texts a response of the external model may carry
Outputs == { OutputTexts[i] : i \in 1..MaxOutputs }

\* A GenerateContentResponse; reading .text of one without a text part raises
ModelResponses ==
    { [readable |-> TRUE, text |-> o] : o \in Outputs }
      \cup { [readable |-> FALSE, text |-> ""] }

NoModelResponse == [readable |-> FALSE, text |-> "<none>"]

\* Values of the environment variable at process start
EnvValues == { None, "", "AIza-key" }

\* What psutil reports when /health samples the host (memory as formatted)
HostSamples ==
    { [total |-> "16.00 GB", available |-> "9.50 GB", usage_percent |-> 41,
       cpu_percent |-> 3],
      [total |-> "16.00 GB", available |-> "0.40 GB", usage_percent |-> 97,
       cpu_percent |-> 100] }

\* ------------------------------------------------------------------------
\* Exceptions and HTTP responses
\* ------------------------------------------------------------------------

HTTPException(status_code, detail) ==
    [type |-> "HTTPException", status_code |-> status_code, detail |-> detail]

\* Any exception that is not an HTTPException; msg is str(e)
OtherException(type, msg) == [type |-> type, status_code |-> 0, detail |-> msg]

NoException == [type |-> "<none>", status_code |-> 0, detail |-> ""]

InvalidFileType ==
    HTTPException(400, "Invalid file type. Only PDF, DOC, DOCX, and TXT are allowed")
EmptyFile == HTTPException(400, "Empty file received")
FileTooLarge == HTTPException(400, "File size exceeds 5MB limit")
ServiceUnavailable == HTTPException(500, "AI Service unavailable after multiple attempts")
InternalError == HTTPException(500, "Internal server error")

UnicodeDecodeError ==
    OtherException("UnicodeDecodeError", "'utf-8' codec can't decode byte")
PDFSyntaxError == OtherException("PDFSyntaxError", "No /Root object! - Is this really a PDF?")
ValueError == OtherException("ValueError", "response.text requires a valid Part")

\* What reaches the caller: {"data": value} with 200, or {"detail": value}
SuccessEnvelope(data) == [status_code |-> 200, key |-> "data", value |-> data]
ErrorResponse(e) == [status_code |-> e.status_code, key |-> "detail", value |-> e.detail]
NoResult == [status_code |-> 0, key |-> "<none>", value |-> ""]

\* The message of the exception is passed on: HTTPException(500, detail=str(e))
HandlerResponse_Leaky(e) ==
    IF e.type = "HTTPException" THEN ErrorResponse(e)
    ELSE ErrorResponse(HTTPException(500, e.detail))

\* except HTTPException: raise / except Exception: raise HTTPException(500, ...)
HandlerResponse(e) ==
    IF e.type = "HTTPException" THEN ErrorResponse(e) ELSE ErrorResponse(InternalError)

\* ------------------------------------------------------------------------
\* Prompt and retry policy
\* ------------------------------------------------------------------------

\* Off by one: text[:45001]
ResumePart_OneMore(t) == Slice(t, PromptTextLimit + 1)

\* {text[:45000]}
ResumePart(t) == Slice(t, PromptTextLimit)

\* f"""You are an expert Resume Analyzer AI. ... Resume: {text[:45000]}"""
Prompt(t) == [template |-> "You are an expert Resume Analyzer AI. ... Resume: ",
              resume |-> ResumePart(t)]

generation_config ==
    [temperature_tenths |-> temperature_tenths, max_output_tokens |-> max_output_tokens]

\* Linear instead of exponential: time.sleep(2 * attempt)
BackoffSeconds_Linear(a) == 2 * a

\* time.sleep(2 ** attempt)
BackoffSeconds(a) == 2 ^ a

\* Off by one: range(retries + 1)
HasNextAttempt_OneMore(a) == a <= retries

\* for attempt in range(retries): whether the loop has another iteration
HasNextAttempt(a) == a < retries

\* ------------------------------------------------------------------------
\* State
\* ------------------------------------------------------------------------

VARIABLES
    proc,            \* "starting", "running" or "aborted" (module import)
    GEMINI_API_KEY,  \* os.getenv("GEMINI_API_KEY")
    health,          \* the last answer of GET /health
    pc,              \* per request: position in analyze_resume
    file,            \* per request: the UploadFile (filename, body)
    contents,        \* per request: await file.read()
    text,            \* per request: the extracted text
    attempt,         \* per request: loop variable of retry_gemini_request
    response,        \* per request: what generate_content returned
    exc,             \* per request: the exception in flight
    result,          \* per request: what the caller receives
    sent,            \* per request: the calls made to the model, in order
    log              \* per request: the external steps taken, in order

vars == << proc, GEMINI_API_KEY, health, pc, file, contents, text, attempt, response,
           exc, result, sent, log >>

Requests == DOMAIN pc

\* No answer of /health yet
NoHealth ==
    [status |-> "<none>", model |-> "", api_ready |-> FALSE,
     memory |-> [total |-> "", available |-> "", usage_percent |-> 0],
     cpu_usage_percent |-> 0]

NoFile == [filename |-> <<>>, body |-> <<>>]

Event(ev, n, out) == [ev |-> ev, n |-> n, out |-> out]

InitRequests(R) ==
    /\ proc = "starting"
    /\ GEMINI_API_KEY \in EnvValues
    /\ health = NoHealth
    /\ pc = [r \in R |-> "idle"]
    /\ file = [r \in R |-> NoFile]
    /\ contents = [r \in R |-> <<>>]
    /\ text = [r \in R |-> <<>>]
    /\ attempt = [r \in R |-> 0]
    /\ response = [r \in R |-> NoModelResponse]
    /\ exc = [r \in R |-> NoException]
    /\ result = [r \in R |-> NoResult]
    /\ sent = [r \in R |-> <<>>]
    /\ log = [r \in R |-> <<>>]

Init == InitRequests(SingleRequest)

\* ------------------------------------------------------------------------
\* Process start (module level)
\* ------------------------------------------------------------------------

\* Only an unset variable is refused: if GEMINI_API_KEY is None
KeyMissing_UnsetOnly(key) == key = None

\* if not GEMINI_API_KEY
KeyMissing(key) == key = None \/ key = ""

\* Lines 37-49: the credential check, then configure_gemini()
Startup ==
    /\ proc = "starting"
    /\ proc' = IF KeyMissing(GEMINI_API_KEY) THEN "aborted" ELSE "running"
    /\ UNCHANGED << GEMINI_API_KEY, health, pc, file, contents, text, attempt, response,
                    exc, result, sent, log >>

\* ------------------------------------------------------------------------
\* GET /health
\* ------------------------------------------------------------------------

\* bool(GEMINI_API_KEY)
Truthy(key) == ~(key = None \/ key = "")

\* Lines 101-116
HealthCheck ==
    /\ proc = "running"
    /\ \E sample \in HostSamples :
          health' = [status |-> "healthy",
                     model |-> MODEL_NAME,
                     api_ready |-> Truthy(GEMINI_API_KEY),
                     memory |-> [total |-> sample.total,
                                 available |-> sample.available,
                                 usage_percent |-> sample.usage_percent],
                     cpu_usage_percent |-> sample.cpu_percent]
    /\ UNCHANGED << proc, GEMINI_API_KEY, pc, file, contents, text, attempt, response,
                    exc, result, sent, log >>

\* ------------------------------------------------------------------------
\* POST /api/analyze
\* ------------------------------------------------------------------------

Goto(r, label) == pc' = [pc EXCEPT ![r] = label]

\* raise e, inside the try block of analyze_resume
Raise(r, e) ==
    /\ exc' = [exc EXCEPT ![r] = e]
    /\ Goto(r, "raised")

Logged(r, e) == log' = [log EXCEPT ![r] = Append(@, e)]

\* The framework hands an upload, one of names x bodies, to the handler
ReceiveFrom(r, names, bodies) ==
    /\ proc = "running"
    /\ pc[r] = "idle"
    /\ \E name \in names, body \in bodies :
          file' = [file EXCEPT ![r] = [filename |-> name, body |-> body]]
    /\ Goto(r, "check_extension")
    /\ UNCHANGED << proc, GEMINI_API_KEY, health, contents, text, attempt, response,
                    exc, result, sent, log >>

\* Lines 68-71
Receive(r) == ReceiveFrom(r, FileNames, Bodies)

\* Lines 68-71, with the uploads of the concurrent specification
ReceiveConcurrent(r) == ReceiveFrom(r, ConcurrentFileNames, ConcurrentBodies)

\* Lines 73-74
CheckExtension(r) ==
    /\ pc[r] = "check_extension"
    /\ IF ~HasAllowedExtension(file[r].filename)
       THEN Raise(r, InvalidFileType)
       ELSE Goto(r, "read") /\ UNCHANGED exc
    /\ UNCHANGED << proc, GEMINI_API_KEY, health, file, contents, text, attempt, response,
                    result, sent, log >>

\* Line 76
ReadUpload(r) ==
    /\ pc[r] = "read"
    /\ contents' = [contents EXCEPT ![r] = file[r].body]
    /\ Logged(r, Event("read", 0, ""))
    /\ Goto(r, "check_size")
    /\ UNCHANGED << proc, GEMINI_API_KEY, health, file, text, attempt, response,
                    exc, result, sent >>

\* The emptiness test is missing
CheckSize_NoEmptyTest(r) ==
    /\ pc[r] = "check_size"
    /\ IF Length(contents[r]) > MaxUploadBytes
       THEN Raise(r, FileTooLarge)
       ELSE Goto(r, "extract") /\ UNCHANGED exc
    /\ UNCHANGED << proc, GEMINI_API_KEY, health, file, contents, text, attempt, response,
                    result, sent, log >>

\* The size limit is exclusive: len(contents) >= 5 * 1024 * 1024
CheckSize_Exclusive(r) ==
    /\ pc[r] = "check_size"
    /\ IF Length(contents[r]) = 0
       THEN Raise(r, EmptyFile)
       ELSE IF Length(contents[r]) >= MaxUploadBytes
            THEN Raise(r, FileTooLarge)
            ELSE Goto(r, "extract") /\ UNCHANGED exc
    /\ UNCHANGED << proc, GEMINI_API_KEY, health, file, contents, text, attempt, response,
                    result, sent, log >>

\* Lines 77-81
CheckSize(r) ==
    /\ pc[r] = "check_size"
    /\ IF Length(contents[r]) = 0
       THEN Raise(r, EmptyFile)
       ELSE IF Length(contents[r]) > MaxUploadBytes
            THEN Raise(r, FileTooLarge)
            ELSE Goto(r, "extract") /\ UNCHANGED exc
    /\ UNCHANGED << proc, GEMINI_API_KEY, health, file, contents, text, attempt, response,
                    result, sent, log >>

\* Line 84, PDF branch: extract_text(io.BytesIO(contents)) returns a text or raises
ExtractPdf(r) ==
    /\ pc[r] = "extract"
    /\ IsPdf(file[r].filename)
    /\ Logged(r, Event("extract_text", 0, ""))
    /\ \/ \E t \in PdfTexts :
             /\ text' = [text EXCEPT ![r] = t]
             /\ Goto(r, "create_model")
             /\ UNCHANGED exc
       \/ /\ Raise(r, PDFSyntaxError)
          /\ UNCHANGED text
    /\ UNCHANGED << proc, GEMINI_API_KEY, health, file, contents, attempt, response,
                    result, sent >>

\* The text is kept in a module-level variable shared by all requests
DecodeContents_SharedText(r) ==
    /\ pc[r] = "extract"
    /\ ~IsPdf(file[r].filename)
    /\ Logged(r, Event("decode", 0, ""))
    /\ LET d == Utf8Decode(contents[r]) IN
          IF d.ok
          THEN /\ text' = [q \in Requests |-> d.text]
               /\ Goto(r, "create_model")
               /\ UNCHANGED exc
          ELSE /\ Raise(r, UnicodeDecodeError)
               /\ UNCHANGED text
    /\ UNCHANGED << proc, GEMINI_API_KEY, health, file, contents, attempt, response,
                    result, sent >>

\* Line 84, other branch: contents.decode('utf-8')
DecodeContents(r) ==
    /\ pc[r] = "extract"
    /\ ~IsPdf(file[r].filename)
    /\ Logged(r, Event("decode", 0, ""))
    /\ LET d == Utf8Decode(contents[r]) IN
          IF d.ok
          THEN /\ text' = [text EXCEPT ![r] = d.text]
               /\ Goto(r, "create_model")
               /\ UNCHANGED exc
          ELSE /\ Raise(r, UnicodeDecodeError)
               /\ UNCHANGED text
    /\ UNCHANGED << proc, GEMINI_API_KEY, health, file, contents, attempt, response,
                    result, sent >>

\* Lines 88-89 and 54: the model handle, and the first iteration of the loop
EnterRetry(r) ==
    /\ pc[r] = "create_model"
    /\ attempt' = [attempt EXCEPT ![r] = 0]
    /\ Goto(r, "loop")
    /\ UNCHANGED << proc, GEMINI_API_KEY, health, file, contents, text, response,
                    exc, result, sent, log >>

\* The result of generate_content is not returned: the loop goes on
GenerateContent_NoReturn(r) ==
    /\ pc[r] = "loop"
    /\ HasNextAttempt(attempt[r])
    /\ sent' = [sent EXCEPT ![r] =
                   Append(@, [model |-> MODEL_NAME, prompt |-> Prompt(text[r]),
                              generation_config |-> generation_config])]
    /\ \/ \E resp \in ModelResponses :
             /\ response' = [response EXCEPT ![r] = resp]
             /\ Logged(r, Event("call_ok", attempt[r], resp.text))
             /\ Goto(r, "except")
       \/ /\ Logged(r, Event("call_failed", attempt[r], ""))
          /\ Goto(r, "except")
          /\ UNCHANGED response
    /\ UNCHANGED << proc, GEMINI_API_KEY, health, file, contents, text, attempt,
                    exc, result >>

\* Lines 55-62: one call of model.generate_content; it returns or raises
GenerateContent(r) ==
    /\ pc[r] = "loop"
    /\ HasNextAttempt(attempt[r])
    /\ sent' = [sent EXCEPT ![r] =
                   Append(@, [model |-> MODEL_NAME, prompt |-> Prompt(text[r]),
                              generation_config |-> generation_config])]
    /\ \/ \E resp \in ModelResponses :
             /\ response' = [response EXCEPT ![r] = resp]
             /\ Logged(r, Event("call_ok", attempt[r], resp.text))
             /\ Goto(r, "respond")
       \/ /\ Logged(r, Event("call_failed", attempt[r], ""))
          /\ Goto(r, "except")
          /\ UNCHANGED response
    /\ UNCHANGED << proc, GEMINI_API_KEY, health, file, contents, text, attempt,
                    exc, result >>

\* The attempt counter is not advanced: while True instead of range(retries)
Backoff_NoIncrement(r) ==
    /\ pc[r] = "except"
    /\ Logged(r, Event("sleep", BackoffSeconds(attempt[r]), ""))
    /\ Goto(r, "loop")
    /\ UNCHANGED << proc, GEMINI_API_KEY, health, file, contents, text, attempt,
                    response, exc, result, sent >>

\* Lines 63-65: the except clause of the loop body, then the next iteration
Backoff(r) ==
    /\ pc[r] = "except"
    /\ Logged(r, Event("sleep", BackoffSeconds(attempt[r]), ""))
    /\ attempt' = [attempt EXCEPT ![r] = @ + 1]
    /\ Goto(r, "loop")
    /\ UNCHANGED << proc, GEMINI_API_KEY, health, file, contents, text, response,
                    exc, result, sent >>

\* Line 66: the loop ran out of attempts
Exhausted(r) ==
    /\ pc[r] = "loop"
    /\ ~HasNextAttempt(attempt[r])
    /\ Raise(r, ServiceUnavailable)
    /\ UNCHANGED << proc, GEMINI_API_KEY, health, file, contents, text, attempt, response,
                    result, sent, log >>

\* The envelope carries a fixed acknowledgement instead of response.text
Respond_Acknowledge(r) ==
    /\ pc[r] = "respond"
    /\ IF response[r].readable
       THEN /\ result' = [result EXCEPT ![r] = SuccessEnvelope("ok")]
            /\ Goto(r, "done")
            /\ UNCHANGED exc
       ELSE /\ Raise(r, ValueError)
            /\ UNCHANGED result
    /\ UNCHANGED << proc, GEMINI_API_KEY, health, file, contents, text, attempt, response,
                    sent, log >>

\* response.text is read inside the try of the loop: a failure is retried
Respond_RetryTextRead(r) ==
    /\ pc[r] = "respond"
    /\ IF response[r].readable
       THEN /\ result' = [result EXCEPT ![r] = SuccessEnvelope(response[r].text)]
            /\ Goto(r, "done")
       ELSE /\ Goto(r, "except")
            /\ UNCHANGED result
    /\ UNCHANGED << proc, GEMINI_API_KEY, health, file, contents, text, attempt,
                    response, exc, sent, log >>

\* Lines 91-92: return {"data": response.text}; reading .text may raise
Respond(r) ==
    /\ pc[r] = "respond"
    /\ IF response[r].readable
       THEN /\ result' = [result EXCEPT ![r] = SuccessEnvelope(response[r].text)]
            /\ Goto(r, "done")
            /\ UNCHANGED exc
       ELSE /\ Raise(r, ValueError)
            /\ UNCHANGED result
    /\ UNCHANGED << proc, GEMINI_API_KEY, health, file, contents, text, attempt, response,
                    sent, log >>

\* Lines 94-99: the two except clauses of analyze_resume
HandleException(r) ==
    /\ pc[r] = "raised"
    /\ result' = [result EXCEPT ![r] = HandlerResponse(exc[r])]
    /\ Goto(r, "done")
    /\ UNCHANGED << proc, GEMINI_API_KEY, health, file, contents, text, attempt, response,
                    exc, sent, log >>

Next ==
    \/ Startup
    \/ HealthCheck
    \/ \E r \in Requests : Receive(r)
    \/ \E r \in Requests : CheckExtension(r)
    \/ \E r \in Requests : ReadUpload(r)
    \/ \E r \in Requests : CheckSize(r)
    \/ \E r \in Requests : ExtractPdf(r)
    \/ \E r \in Requests : DecodeContents(r)
    \/ \E r \in Requests : EnterRetry(r)
    \/ \E r \in Requests : GenerateContent(r)
    \/ \E r \in Requests : Backoff(r)
    \/ \E r \in Requests : Exhausted(r)
    \/ \E r \in Requests : Respond(r)
    \/ \E r \in Requests : HandleException(r)

Spec == Init /\ [][Next]_vars

\* Two analyze requests in flight, their steps interleaved in every order.
\* (The event loop switches between handlers only at an await; every schedule
\* it can produce is one of these interleavings.)
InitConcurrent == InitRequests(TwoRequests)

NextConcurrent ==
    \/ Startup
    \/ \E r \in Requests : ReceiveConcurrent(r)
    \/ \E r \in Requests : CheckExtension(r)
    \/ \E r \in Requests : ReadUpload(r)
    \/ \E r \in Requests : CheckSize(r)
    \/ \E r \in Requests : ExtractPdf(r)
    \/ \E r \in Requests : DecodeContents(r)
    \/ \E r \in Requests : EnterRetry(r)
    \/ \E r \in Requests : GenerateContent(r)
    \/ \E r \in Requests : Backoff(r)
    \/ \E r \in Requests : Exhausted(r)
    \/ \E r \in Requests : Respond(r)
    \/ \E r \in Requests : HandleException(r)

SpecConcurrent == InitConcurrent /\ [][NextConcurrent]_vars

\* The steps of the handler of request r after it was handed the upload
HandlerStep(r) ==
    \/ CheckExtension(r)
    \/ ReadUpload(r)
    \/ CheckSize(r)
    \/ ExtractPdf(r)
    \/ DecodeContents(r)
    \/ EnterRetry(r)
    \/ GenerateContent(r)
    \/ Backoff(r)
    \/ Exhausted(r)
    \/ Respond(r)
    \/ HandleException(r)

\* Every external step returns (the read of the upload, extraction, each model
\* call, each sleep), and the handler then runs on: it is sequential code.
SpecFair == Spec /\ \A r \in SingleRequest : WF_vars(HandlerStep(r))

\* ------------------------------------------------------------------------
\* Vocabulary of the properties
\* ------------------------------------------------------------------------

CallEvents == {"call_ok", "call_failed"}
ExtractionEvents == {"extract_text", "decode"}

\* The events of request r whose kind is in kinds, in order
EventsOf(r, kinds) == SelectSeq(log[r], LAMBDA e : e.ev \in kinds)

RECURSIVE SumN(_)
SumN(es) == IF es = <<>> THEN 0 ELSE Head(es).n + SumN(Tail(es))

\* Seconds spent in backoff waits by request r
TotalWait(r) == SumN(EventsOf(r, {"sleep"}))

\* Request r has delivered its response
Done(r) == pc[r] = "done"

\* The model call of request r failed on its first, second and third attempt
AllThreeFailed(r) ==
    LET calls == EventsOf(r, CallEvents) IN
        /\ Len(calls) >= 3
        /\ \A i \in 1..3 : calls[i].ev = "call_failed"

\* ------------------------------------------------------------------------
\* C1
\* ------------------------------------------------------------------------

\* C1: when the model call has failed on all 3 attempts of a request, the
\* model was invoked exactly 3 times, the request ends with ServiceUnavailable
\* (status 500, an error body, not the success envelope), and the request has
\* waited at least 1 + 2 = 3 seconds in backoff.
C1_ExhaustionFails ==
    \A r \in Requests :
        (Done(r) /\ AllThreeFailed(r)) =>
            /\ Len(sent[r]) = 3
            /\ Len(EventsOf(r, CallEvents)) = 3
            /\ result[r].status_code = 500
            /\ result[r].key = "detail"
            /\ result[r].value = "AI Service unavailable after multiple attempts"
            /\ TotalWait(r) >= 3

\* A request that ended after three failed model calls
C1_Witness == \E r \in Requests : Done(r) /\ AllThreeFailed(r)

\* ------------------------------------------------------------------------
\* C2
\* ------------------------------------------------------------------------

\* The model call of request r failed on its first k attempts and returned
\* on attempt k+1
FailedThenReturned(r, k) ==
    LET calls == EventsOf(r, CallEvents) IN
        /\ Len(calls) >= k + 1
        /\ \A i \in 1..k : calls[i].ev = "call_failed"
        /\ calls[k + 1].ev = "call_ok"

\* The output text of attempt k+1 of request r
OutputOfAttempt(r, k) == EventsOf(r, CallEvents)[k + 1].out

\* C2 as stated: for every k in {0,1,2}, when the model call failed on the
\* first k attempts and succeeded on attempt k+1, the request ends with the
\* success envelope carrying the output text of that attempt.
C2_AsStated ==
    \A r \in Requests : \A k \in 0..2 :
        (Done(r) /\ FailedThenReturned(r, k)) =>
            /\ result[r].status_code = 200
            /\ result[r].key = "data"
            /\ result[r].value = OutputOfAttempt(r, k)

\* C2, amended: for every k in {0,1,2}, when the model call failed on the
\* first k attempts and returned on attempt k+1, the request ends with the
\* success envelope {"data": text of attempt k+1} and nothing else (no trace of
\* the k failures) if the text of the returned response can be read; if
\* reading it raises, the request ends with the generic status-500 error.
C2_SuccessAfterFailures ==
    \A r \in Requests : \A k \in 0..2 :
        (Done(r) /\ FailedThenReturned(r, k)) =>
            IF response[r].readable
            THEN /\ result[r] = [status_code |-> 200, key |-> "data",
                                 value |-> OutputOfAttempt(r, k)]
                 /\ exc[r] = NoException
            ELSE result[r] = [status_code |-> 500, key |-> "detail",
                              value |-> "Internal server error"]

\* Two failures, then a readable answer on the third attempt, delivered
C2_Witness ==
    \E r \in Requests :
        /\ Done(r)
        /\ FailedThenReturned(r, 2)
        /\ response[r].readable
        /\ result[r].status_code = 200

\* ------------------------------------------------------------------------
\* C3
\* ------------------------------------------------------------------------

\* The backoff waits of request r, in seconds, in order
Waits(r) == [i \in 1..Len(EventsOf(r, {"sleep"})) |-> EventsOf(r, {"sleep"})[i].n]

\* C3 as stated: a backoff wait happens only between a failed attempt and the
\* next attempt (1s after attempt 0, 2s after attempt 1); the last failure is
\* followed by no wait, so three failures make exactly two waits.
C3_AsStated ==
    \A r \in Requests :
        /\ \A i \in 1..Len(log[r]) :
              log[r][i].ev = "sleep" =>
                  /\ i > 1
                  /\ log[r][i - 1].ev = "call_failed"
                  /\ log[r][i].n = 2 ^ log[r][i - 1].n
                  /\ (Done(r) => i < Len(log[r]) /\ log[r][i + 1].ev \in CallEvents)
        /\ (Done(r) /\ AllThreeFailed(r)) => Waits(r) = <<1, 2>>

\* C3, amended: a backoff wait of 2^attempt seconds follows every failed
\* attempt, the last one included, and happens nowhere else: 1s after failed
\* attempt 0, 2s after failed attempt 1, 4s after failed attempt 2.  When all 3
\* attempts fail there are exactly three waits (1s, 2s, 4s), the third one
\* before the request fails with ServiceUnavailable.
C3_BackoffAfterEveryFailure ==
    \A r \in Requests :
        /\ \A i \in 1..Len(log[r]) :
              /\ log[r][i].ev = "sleep" =>
                    /\ i > 1
                    /\ log[r][i - 1].ev = "call_failed"
                    /\ log[r][i - 1].n \in 0..2
                    /\ log[r][i].n = <<1, 2, 4>>[log[r][i - 1].n + 1]
              /\ (log[r][i].ev = "call_failed" /\ (i < Len(log[r]) \/ Done(r))) =>
                    /\ i < Len(log[r])
                    /\ log[r][i + 1].ev = "sleep"
        /\ (AllThreeFailed(r) /\ pc[r] \in {"raised", "done"}) =>
              /\ Waits(r) = <<1, 2, 4>>
              /\ log[r][Len(log[r])].ev = "sleep"
              /\ exc[r].detail = "AI Service unavailable after multiple attempts"

\* A request that failed three times, waited three times and has answered
C3_Witness ==
    \E r \in Requests :
        Done(r) /\ AllThreeFailed(r) /\ Len(Waits(r)) = 3 /\ result[r].status_code = 500

\* ------------------------------------------------------------------------
\* C4
\* ------------------------------------------------------------------------

\* C4: within one request, once a model invocation has returned, no further
\* model invocation and no backoff wait follows; and the model is never
\* invoked more than 3 times in a request.
C4_SuccessShortCircuits ==
    \A r \in Requests :
        /\ \A i \in 1..Len(log[r]) :
              log[r][i].ev = "call_ok" =>
                  \A j \in (i + 1)..Len(log[r]) :
                      log[r][j].ev \notin CallEvents \cup {"sleep"}
        /\ Len(EventsOf(r, CallEvents)) <= 3
        /\ Len(sent[r]) <= 3
        /\ Len(sent[r]) = Len(EventsOf(r, CallEvents))

\* A request that answered after a model call returned on the second attempt
C4_Witness ==
    \E r \in Requests :
        /\ Done(r)
        /\ FailedThenReturned(r, 1)
        /\ Len(sent[r]) = 2

\* ------------------------------------------------------------------------
\* C5, C6, C7: validation
\* ------------------------------------------------------------------------

\* name ends in the word spelt by `letters`, each letter in either case;
\* letters[i] = <<lower case, upper case>>
EndsWithAnyCase(name, letters) ==
    /\ Len(name) >= Len(letters)
    /\ \A i \in 1..Len(letters) :
          name[Len(name) - Len(letters) + i] \in {letters[i][1], letters[i][2]}

Word_pdf == << <<"p","P">>, <<"d","D">>, <<"f","F">> >>
Word_doc == << <<"d","D">>, <<"o","O">>, <<"c","C">> >>
Word_docx == << <<"d","D">>, <<"o","O">>, <<"c","C">>, <<"x","X">> >>
Word_txt == << <<"t","T">>, <<"x","X">>, <<"t","T">> >>
AllowedWords == { Word_pdf, Word_doc, Word_docx, Word_txt }
Dot == << <<".", ".">> >>

\* The filename ends in none of pdf, doc, docx, txt
EndsInNoAllowedWord(name) == \A w \in AllowedWords : ~EndsWithAnyCase(name, w)

\* The filename has one of the extensions .pdf, .doc, .docx, .txt
AllowedExtension(name) == \E w \in AllowedWords : EndsWithAnyCase(name, Dot \o w)

\* Request r has been handed its upload
Received(r) == pc[r] # "idle"

\* Text extraction was invoked for request r
ExtractionInvoked(r) == EventsOf(r, ExtractionEvents) # <<>>

\* The model was invoked for request r
ModelInvoked(r) == sent[r] # <<>> \/ EventsOf(r, CallEvents) # <<>>

\* C5: for an upload whose filename ends (in any case) in none of pdf, doc,
\* docx, txt, whatever the length of its body, neither text extraction nor the
\* model is ever invoked, and the request ends with InvalidFileType, status 400.
C5_DisallowedExtensionRejected ==
    \A r \in Requests :
        (Received(r) /\ EndsInNoAllowedWord(file[r].filename)) =>
            /\ ~ExtractionInvoked(r)
            /\ ~ModelInvoked(r)
            /\ Done(r) =>
                  /\ result[r].status_code = 400
                  /\ result[r].key = "detail"
                  /\ result[r].value =
                        "Invalid file type. Only PDF, DOC, DOCX, and TXT are allowed"

\* A rejected upload with a disallowed extension and a body over 5 MiB
C5_Witness ==
    \E r \in Requests :
        /\ Done(r)
        /\ EndsInNoAllowedWord(file[r].filename)
        /\ Length(file[r].body) > 5242880
        /\ result[r].status_code = 400

\* C6 as stated: an upload of zero bytes ends with EmptyFile, whatever its
\* filename.
C6_AsStated ==
    \A r \in Requests :
        (Done(r) /\ Length(file[r].body) = 0) =>
            result[r].value = "Empty file received"

\* C6, amended: an upload of zero bytes whose filename has an allowed
\* extension ends with EmptyFile (status 400); with any other filename it ends
\* with InvalidFileType, the extension rule being checked first.
C6_EmptyUpload ==
    \A r \in Requests :
        (Done(r) /\ Length(file[r].body) = 0) =>
            /\ result[r].status_code = 400
            /\ result[r].key = "detail"
            /\ result[r].value =
                  IF AllowedExtension(file[r].filename)
                  THEN "Empty file received"
                  ELSE "Invalid file type. Only PDF, DOC, DOCX, and TXT are allowed"

\* A zero-byte upload with an allowed extension, answered
C6_Witness ==
    \E r \in Requests :
        /\ Done(r)
        /\ Length(file[r].body) = 0
        /\ AllowedExtension(file[r].filename)
        /\ result[r].value = "Empty file received"

\* A validation error is in flight or has been delivered for request r
ValidationFailed(r) ==
    \/ exc[r].detail \in { InvalidFileType.detail, EmptyFile.detail, FileTooLarge.detail }
    \/ result[r].value \in { InvalidFileType.detail, EmptyFile.detail, FileTooLarge.detail }

\* C7: for an upload with an allowed extension, a body of more than 5,242,880
\* bytes never reaches extraction or the model and ends with FileTooLarge,
\* status 400, while a body of exactly 5,242,880 bytes fails no validation rule
\* and goes on to text extraction.
C7_SizeLimitInclusive ==
    \A r \in Requests :
        (Received(r) /\ AllowedExtension(file[r].filename)) =>
            /\ Length(file[r].body) > 5242880 =>
                  /\ ~ExtractionInvoked(r)
                  /\ ~ModelInvoked(r)
                  /\ Done(r) =>
                        /\ result[r].status_code = 400
                        /\ result[r].key = "detail"
                        /\ result[r].value = "File size exceeds 5MB limit"
            /\ Length(file[r].body) = 5242880 =>
                  /\ ~ValidationFailed(r)
                  /\ pc[r] \notin {"check_extension", "read", "check_size", "extract"}
                        => ExtractionInvoked(r)

\* An upload of exactly 5 MiB on which text extraction has run
C7_Witness ==
    \E r \in Requests :
        /\ AllowedExtension(file[r].filename)
        /\ Length(file[r].body) = 5242880
        /\ ExtractionInvoked(r)
        /\ Done(r)

\* ------------------------------------------------------------------------
\* C8, C9: errors at the endpoint boundary
\* ------------------------------------------------------------------------

\* Text extraction of request r was invoked and failed
ExtractionFailed(r) ==
    /\ ExtractionInvoked(r)
    /\ exc[r].type \in {"UnicodeDecodeError", "PDFSyntaxError"}

\* C8: when an upload passes validation and text extraction fails, the caller
\* receives a 400-class error (DecodeError for a body that is not valid UTF-8,
\* ExtractionError for a PDF), not a 500-class one.
C8_ExtractionFailureIsClientError ==
    \A r \in Requests :
        (Done(r) /\ ExtractionFailed(r)) =>
            /\ result[r].status_code >= 400
            /\ result[r].status_code <= 499

\* C9: an error raised by validation or by retry exhaustion reaches the caller
\* with its own status code and message; every other failure inside the
\* handler reaches the caller as status 500 with the one message
\* "Internal server error", whatever the failure was.
C9_ErrorPropagation ==
    \A r \in Requests :
        (Done(r) /\ exc[r] # NoException) =>
            /\ result[r].key = "detail"
            /\ exc[r] = InvalidFileType =>
                  /\ result[r].status_code = 400
                  /\ result[r].value =
                        "Invalid file type. Only PDF, DOC, DOCX, and TXT are allowed"
            /\ exc[r] = EmptyFile =>
                  /\ result[r].status_code = 400
                  /\ result[r].value = "Empty file received"
            /\ exc[r] = FileTooLarge =>
                  /\ result[r].status_code = 400
                  /\ result[r].value = "File size exceeds 5MB limit"
            /\ exc[r] = ServiceUnavailable =>
                  /\ result[r].status_code = 500
                  /\ result[r].value = "AI Service unavailable after multiple attempts"
            /\ exc[r].type # "HTTPException" =>
                  /\ result[r].status_code = 500
                  /\ result[r].value = "Internal server error"
                  /\ result[r].value # exc[r].detail

\* A request that failed inside the handler with something other than an
\* HTTPException (here: reading the text of the model's response) and answered
C9_Witness ==
    \E r \in Requests :
        /\ Done(r)
        /\ exc[r].type = "ValueError"
        /\ result[r].status_code = 500

\* ------------------------------------------------------------------------
\* C10: truncation of the text in the prompt
\* ------------------------------------------------------------------------

RECURSIVE IsPrefix(_, _)
\* p is an initial segment of t, character by character
IsPrefix(p, t) ==
    \/ p = <<>>
    \/ /\ t # <<>>
       /\ Head(p).v = Head(t).v
       /\ \/ Head(p).n = Head(t).n /\ IsPrefix(Tail(p), Tail(t))
          \/ Head(p).n < Head(t).n /\ Tail(p) = <<>>

Min(a, b) == IF a <= b THEN a ELSE b

RECURSIVE CharAt(_, _)
\* s[i], 0 <= i < len(s)
CharAt(s, i) == IF i < Head(s).n THEN Head(s).v ELSE CharAt(Tail(s), i - Head(s).n)

\* C10: on every attempt of the retry loop, the resume part of the prompt sent
\* to the model is the first min(length, 45,000) characters of the extracted
\* text: it is an initial segment of the text of that length, so nothing at
\* position 45,000 or beyond is sent, and a text of at most 45,000 characters
\* is sent whole.
C10_PromptTruncated ==
    \A r \in Requests : \A i \in 1..Len(sent[r]) :
        LET part == sent[r][i].prompt.resume IN
            /\ Length(part) = Min(Length(text[r]), 45000)
            /\ Length(part) <= 45000
            /\ IsPrefix(part, text[r])
            /\ Length(text[r]) <= 45000 => part = text[r]
            /\ Length(part) > 0 =>
                  CharAt(part, Length(part) - 1) = CharAt(text[r], Length(part) - 1)

\* Three prompts sent for a text of more than 45,000 characters
C10_Witness ==
    \E r \in Requests :
        /\ Length(text[r]) > 45000
        /\ Len(sent[r]) = 3

\* ------------------------------------------------------------------------
\* C11: which extraction path is taken
\* ------------------------------------------------------------------------

\* The filename ends in .pdf, in any case
PdfExtension(name) == EndsWithAnyCase(name, Dot \o Word_pdf)

\* Request r is past line 84 without a failure of extraction or validation
TextExtracted(r) ==
    /\ ExtractionInvoked(r)
    /\ ~ExtractionFailed(r)

\* "Hello World"
HelloWorldText ==
    << Run(72, 1), Run(101, 1), Run(108, 2), Run(111, 1), Run(32, 1), Run(87, 1),
       Run(111, 1), Run(114, 1), Run(108, 1), Run(100, 1) >>

\* Every byte of the body is below 128
AllAscii(body) == \A i \in 1..Len(body) : body[i].v < 128

\* C11: the extraction routine (extract_text) is invoked exactly for the
\* validated uploads whose filename ends in .pdf, in any case; for every other
\* validated upload the bytes are decoded as UTF-8 and the extraction routine
\* is not invoked, and the text is the decoding of the bytes unchanged: an
\* ASCII body gives the same characters ("Hello World" gives "Hello World"),
\* the two bytes C3 A9 give the one character U+00E9.
C11_ExtractionPath ==
    \A r \in Requests :
        /\ ExtractionInvoked(r) =>
              /\ AllowedExtension(file[r].filename)
              /\ Len(EventsOf(r, ExtractionEvents)) = 1
              /\ PdfExtension(file[r].filename)
                    <=> EventsOf(r, {"extract_text"}) # <<>>
              /\ ~PdfExtension(file[r].filename)
                    <=> EventsOf(r, {"decode"}) # <<>>
        /\ (TextExtracted(r) /\ ~PdfExtension(file[r].filename)) =>
              /\ AllAscii(file[r].body) => text[r] = file[r].body
              /\ file[r].body = HelloWorld => text[r] = HelloWorldText
              /\ file[r].body = << Run(195, 1), Run(169, 1) >>
                    => text[r] = << Run(233, 1) >>
              /\ Length(text[r]) <= Length(file[r].body)
              /\ Length(text[r]) > 0
        /\ (TextExtracted(r) /\ PdfExtension(file[r].filename)) => text[r] \in PdfTexts

\* A .txt upload holding "Hello World" whose text has been extracted and sent
C11_Witness ==
    \E r \in Requests :
        /\ file[r].filename = <<"c","v",".","t","x","t">>
        /\ file[r].body = HelloWorld
        /\ text[r] = HelloWorldText
        /\ EventsOf(r, {"decode"}) # <<>>
        /\ Done(r)

\* ------------------------------------------------------------------------
\* C13: the credential
\* ------------------------------------------------------------------------

\* The environment held a non-empty credential when the process started
CredentialPresent == GEMINI_API_KEY # "<None>" /\ GEMINI_API_KEY # ""

\* /health has answered
HealthAnswered == health.status # "<none>"

\* C13: whenever /health answers, api_ready is true exactly if the credential
\* was present at process start; a process whose credential is missing or
\* empty aborts at start-up, so no analyze request and no health request is
\* ever handled without a credential.
C13_ApiReady ==
    /\ HealthAnswered =>
          /\ health.api_ready <=> CredentialPresent
          /\ health.status = "healthy"
          /\ health.model = "gemini-1.5-flash"
    /\ ~CredentialPresent =>
          /\ proc \in {"starting", "aborted"}
          /\ ~HealthAnswered
          /\ \A r \in Requests : ~Received(r)
    /\ (HealthAnswered \/ \E r \in Requests : Received(r)) =>
          proc = "running" /\ CredentialPresent

\* /health has answered api_ready = true while a request was being handled
C13_Witness ==
    /\ HealthAnswered
    /\ health.api_ready
    /\ \E r \in Requests : ModelInvoked(r)

\* ------------------------------------------------------------------------
\* C12: independence of concurrent requests
\* ------------------------------------------------------------------------

\* Everything the handler holds for request r
RequestState(r) ==
    << pc[r], file[r], contents[r], text[r], attempt[r], response[r], exc[r],
       result[r], sent[r], log[r] >>

\* The response that the upload of request r and the outcomes of its own
\* extraction and model calls call for
ResponseFromOwnInputs(r) ==
    LET name == file[r].filename
        body == file[r].body
        calls == EventsOf(r, CallEvents)
        generic == [status_code |-> 500, key |-> "detail",
                    value |-> "Internal server error"]
    IN  IF ~AllowedExtension(name)
        THEN [status_code |-> 400, key |-> "detail", value |->
                "Invalid file type. Only PDF, DOC, DOCX, and TXT are allowed"]
        ELSE IF Length(body) = 0
        THEN [status_code |-> 400, key |-> "detail", value |-> "Empty file received"]
        ELSE IF Length(body) > 5242880
        THEN [status_code |-> 400, key |-> "detail",
              value |-> "File size exceeds 5MB limit"]
        ELSE IF calls = <<>>
        THEN generic
        ELSE IF calls[Len(calls)].ev = "call_ok"
        THEN IF calls[Len(calls)].out # ""
             THEN [status_code |-> 200, key |-> "data", value |-> calls[Len(calls)].out]
             ELSE generic
        ELSE [status_code |-> 500, key |-> "detail",
              value |-> "AI Service unavailable after multiple attempts"]

\* What request r holds comes from its own upload only
OwnDataOnly(r) ==
    /\ contents[r] \in {<<>>, file[r].body}
    /\ (TextExtracted(r) /\ ~PdfExtension(file[r].filename)) =>
          text[r] = Utf8Decode(file[r].body).text
    /\ \A i \in 1..Len(sent[r]) :
          /\ sent[r][i].prompt.resume = Slice(text[r], 45000)
          /\ ~PdfExtension(file[r].filename) =>
                sent[r][i].prompt.resume = Slice(Utf8Decode(file[r].body).text, 45000)
    /\ Done(r) => result[r] = ResponseFromOwnInputs(r)

\* A step of one request leaves the state of every other request as it was
NoInterference ==
    \A r \in Requests : \A q \in Requests \ {r} :
        RequestState(r)' # RequestState(r) => RequestState(q)' = RequestState(q)

\* A step taken while requests are served leaves the configuration as it was
ConfigurationKept ==
    /\ GEMINI_API_KEY' = GEMINI_API_KEY
    /\ proc = "running" => proc' = "running"

\* C12: with two requests in flight and their steps interleaved in any order,
\* each request only ever holds data of its own upload, its response is the one
\* its own upload and the outcomes of its own extraction and model calls call
\* for, no step of one request changes the state of the other, and no step
\* changes the credential or stops the process.
C12_RequestsIndependent ==
    /\ [](\A r \in Requests : OwnDataOnly(r))
    /\ [][NoInterference /\ ConfigurationKept]_vars

\* Both requests have answered, one with a success envelope and one with a
\* status-500 error, after sending prompts built from two different texts
C12_Witness ==
    /\ Cardinality(Requests) = 2
    /\ \A r \in Requests : Done(r)
    /\ \E r \in Requests : result[r].status_code = 200
    /\ \E r \in Requests : result[r].status_code = 500
    /\ \E r \in Requests : \E q \in Requests \ {r} :
          text[r] # text[q] /\ sent[r] # <<>> /\ sent[q] # <<>>

\* ------------------------------------------------------------------------
\* C14: order of the pipeline
\* ------------------------------------------------------------------------

\* The upload of request r passes the three validation rules
PassesValidation(r) ==
    /\ AllowedExtension(file[r].filename)
    /\ Length(file[r].body) > 0
    /\ Length(file[r].body) <= 5242880

\* Position in the log of request r of the first event whose kind is in kinds
\* (0 if there is none)
FirstIndex(r, kinds) ==
    IF \E i \in 1..Len(log[r]) : log[r][i].ev \in kinds
    THEN CHOOSE i \in 1..Len(log[r]) :
            /\ log[r][i].ev \in kinds
            /\ \A j \in 1..(i - 1) : log[r][j].ev \notin kinds
    ELSE 0

\* C14: in every request the model is invoked only after the three validation
\* rules passed and text extraction ran and succeeded; text extraction is
\* invoked only after the upload was read and the three rules passed; and the
\* success envelope is returned only after a model invocation of that request
\* returned, as the last model invocation of the request.
C14_PipelineOrder ==
    \A r \in Requests :
        /\ ExtractionInvoked(r) =>
              /\ PassesValidation(r)
              /\ ~ValidationFailed(r)
              /\ FirstIndex(r, {"read"}) > 0
              /\ FirstIndex(r, {"read"}) < FirstIndex(r, ExtractionEvents)
        /\ ModelInvoked(r) =>
              /\ PassesValidation(r)
              /\ ExtractionInvoked(r)
              /\ ~ExtractionFailed(r)
              /\ FirstIndex(r, ExtractionEvents) < FirstIndex(r, CallEvents)
        /\ (result[r].status_code = 200 \/ result[r].key = "data") =>
              /\ Done(r)
              /\ EventsOf(r, {"call_ok"}) # <<>>
              /\ log[r][Len(log[r])].ev = "call_ok"
              /\ result[r].value = log[r][Len(log[r])].out

\* A request that went through read, extraction and a model call and
\* returned the success envelope
C14_Witness ==
    \E r \in Requests :
        /\ result[r].status_code = 200
        /\ FirstIndex(r, {"read"}) = 1
        /\ FirstIndex(r, ExtractionEvents) = 2
        /\ FirstIndex(r, CallEvents) = 3

\* ------------------------------------------------------------------------
\* C15: nothing but the model invocation is retried
\* ------------------------------------------------------------------------

\* Reading the text of the returned response failed in request r
TextReadFailed(r) == exc[r].type = "ValueError"

\* C15: in one request the upload is read at most once and text extraction is
\* invoked at most once; at most one model invocation returns; and when
\* reading the text of the returned response fails, that invocation stays the
\* last one (no wait and no further attempt follows, even if attempts are
\* left) and the request ends with an error.
C15_OnlyModelCallRetried ==
    \A r \in Requests :
        /\ Len(EventsOf(r, {"read"})) <= 1
        /\ Len(EventsOf(r, ExtractionEvents)) <= 1
        /\ Len(EventsOf(r, {"call_ok"})) <= 1
        /\ TextReadFailed(r) =>
              /\ log[r] # <<>>
              /\ log[r][Len(log[r])].ev = "call_ok"
              /\ pc[r] \in {"raised", "done"}
              /\ Done(r) =>
                    /\ result[r].key = "detail"
                    /\ result[r].status_code = 500

\* The first attempt returned a response whose text could not be read; the
\* request ended with an error after that single attempt
C15_Witness ==
    \E r \in Requests :
        /\ Done(r)
        /\ TextReadFailed(r)
        /\ Len(sent[r]) = 1
        /\ result[r].status_code = 500

\* ------------------------------------------------------------------------
\* C16: termination
\* ------------------------------------------------------------------------

\* The handler of request r stands before a call of the model
AtModelCall(r) == ENABLED GenerateContent(r)

\* The handler of request r can take a step that is not a call of the model
CanStepWithoutModel(r) ==
    \/ ENABLED CheckExtension(r)
    \/ ENABLED ReadUpload(r)
    \/ ENABLED CheckSize(r)
    \/ ENABLED ExtractPdf(r)
    \/ ENABLED DecodeContents(r)
    \/ ENABLED EnterRetry(r)
    \/ ENABLED Backoff(r)
    \/ ENABLED Exhausted(r)
    \/ ENABLED Respond(r)
    \/ ENABLED HandleException(r)

\* What the caller has of request r is the success envelope or one error
IsResponse(res) ==
    \/ res.status_code = 200 /\ res.key = "data"
    \/ res.status_code \in {400, 500} /\ res.key = "detail"

\* C16: if every external step returns, every received request ends with a
\* response.  The response is the success envelope or one error, there is none
\* before the request ends and it never changes afterwards.  A request takes at
\* most 8 external steps (one read, one extraction, 3 model calls, 3 waits),
\* and a request that has not ended is either before a call of the model or
\* can step on without the model.
C16_Terminates ==
    /\ \A r \in SingleRequest : Received(r) ~> Done(r)
    /\ [](\A r \in SingleRequest :
            /\ Done(r) <=> result[r] # NoResult
            /\ Done(r) => IsResponse(result[r])
            /\ Len(log[r]) <= 8
            /\ (Received(r) /\ ~Done(r)) => (AtModelCall(r) \/ CanStepWithoutModel(r))
            /\ Done(r) => ~(AtModelCall(r) \/ CanStepWithoutModel(r)))
    /\ [][\A r \in SingleRequest :
            Done(r) => (pc'[r] = "done" /\ result'[r] = result[r])]_vars

\* A request that took the longest path (three failed calls, three waits) and
\* has answered
C16_Witness ==
    \E r \in Requests :
        /\ Done(r)
        /\ Len(log[r]) = 8
        /\ IsResponse(result[r])

====
